---------------------------- MODULE Spec2Model ----------------------------
(***************************************************************************)
(* A model of leads-unifier.py: the field recognizers, the column          *)
(* selectors, the value normalizers, the phone merger and the unification  *)
(* pipeline (process_csvs / main).                                         *)
(*                                                                         *)
(* Python strings are TLA+ strings; a character is a string of length 1.   *)
(* A missing cell (pandas NaN / Python None, everything pd.isna accepts)   *)
(* is the marker None.                                                     *)
(***************************************************************************)
EXTENDS Integers, Sequences, FiniteSets, TLC

VARIABLES
    pc,               \* position of the run inside main / process_csvs
    input_exists,     \* os.path.exists('input')
    csv_files,        \* glob.glob(input_dir): the number of files found
    file_idx,         \* number of files the for loop has finished
    df,               \* the table read from the current file
    found_columns,    \* [name, email, phone_columns] selected for df
    contacts_df,      \* rows extracted from df
    valid_contacts,   \* contacts_df after dropna(how='all')
    all_contacts,     \* the accumulated ContactSet
    sorted_index,     \* row labels of all_contacts after sort_values
    email_deduped,    \* row labels left by drop_duplicates(subset=['email'])
    deduped_contacts, \* row labels left by drop_duplicates(subset=['phone'])
    output_file,      \* what is on disk: "absent", "partial" or "written"
    writes,           \* number of to_csv calls started
    log,              \* per finished file: what the logger recorded
    call,             \* a direct call of one engine function: [fn, ...args]
    ret               \* <<>> before the call returns, <<value>> after

vars == <<pc, input_exists, csv_files, file_idx, df, found_columns,
          contacts_df, valid_contacts, all_contacts, sorted_index,
          email_deduped, deduped_contacts, output_file, writes, log, call, ret>>

pipeline_vars == <<pc, input_exists, csv_files, file_idx, df, found_columns,
                   contacts_df, valid_contacts, all_contacts, sorted_index,
                   email_deduped, deduped_contacts, output_file, writes, log>>

-----------------------------------------------------------------------------
(* Strings and characters *)

None == "NaN"

isna(v) == v = None

notna(v) == v # None

Chars(s) == [i \in 1..Len(s) |-> SubSeq(s, i, i)]

DigitChars == {"0", "1", "2", "3", "4", "5", "6", "7", "8", "9"}

isdigit(c) == c \in DigitChars

startswith(s, prefix) ==
    Len(s) >= Len(prefix) /\ SubSeq(s, 1, Len(prefix)) = prefix

\* All strings over alphabet A of length at most n.
RECURSIVE Strings(_, _)
Strings(A, n) ==
    IF n = 0 THEN {""}
    ELSE LET S == Strings(A, n - 1) IN S \cup {s \o c : s \in S, c \in A}

\* The digit string "1234567890123..." of length k.
RECURSIVE DigitRun(_)
DigitRun(k) ==
    IF k = 0 THEN "" ELSE DigitRun(k - 1) \o SubSeq("1234567890", ((k - 1) % 10) + 1, ((k - 1) % 10) + 1)

UpperAlphabet == "ABCDEFGHIJKLMNOPQRSTUVWXYZ"
LowerAlphabet == "abcdefghijklmnopqrstuvwxyz"

UpperChars == {SubSeq(UpperAlphabet, i, i) : i \in 1..Len(UpperAlphabet)}

LowerChars == {SubSeq(LowerAlphabet, i, i) : i \in 1..Len(LowerAlphabet)}

ToLower ==
    [c \in UpperChars |->
        LET i == CHOOSE k \in 1..Len(UpperAlphabet) : SubSeq(UpperAlphabet, k, k) = c
        IN SubSeq(LowerAlphabet, i, i)]

isupper(c) == c \in UpperChars

islower(c) == c \in LowerChars

isalpha(c) == isupper(c) \/ islower(c)

isspace(c) == c \in {" ", "\t"}

LowerChar(c) == IF isupper(c) THEN ToLower[c] ELSE c

\* str.lower()
RECURSIVE lower(_)
lower(s) ==
    IF Len(s) = 0 THEN "" ELSE LowerChar(SubSeq(s, 1, 1)) \o lower(SubSeq(s, 2, Len(s)))

\* str.strip()
RECURSIVE lstrip(_)
lstrip(s) ==
    IF Len(s) > 0 /\ isspace(SubSeq(s, 1, 1)) THEN lstrip(SubSeq(s, 2, Len(s))) ELSE s

RECURSIVE rstrip(_)
rstrip(s) ==
    IF Len(s) > 0 /\ isspace(SubSeq(s, Len(s), Len(s)))
    THEN rstrip(SubSeq(s, 1, Len(s) - 1)) ELSE s

strip(s) == rstrip(lstrip(s))

\* `p in s` for strings
contains(s, p) ==
    \E i \in 0..(Len(s) - Len(p)) : SubSeq(s, i + 1, i + Len(p)) = p

\* The first characters of the words of s.split().
WordStarts(s) ==
    {i \in 1..Len(s) :
        /\ ~isspace(SubSeq(s, i, i))
        /\ (i = 1 \/ isspace(SubSeq(s, i - 1, i - 1)))}

CountChars(s, P(_)) == Cardinality({i \in 1..Len(s) : P(SubSeq(s, i, i))})

\* Series.dropna()
dropna(values) == SelectSeq(values, notna)

\* Series.head(n)
head(values, n) == SubSeq(values, 1, IF Len(values) < n THEN Len(values) ELSE n)

\* A table as read_csv returns it: the column names in file order and, for
\* each, its cells from the first row to the last.
Column(table, col) == table.data[col]

NumRows(table) ==
    IF table.columns = <<>> THEN 0 ELSE Len(table.data[table.columns[1]])

Row(table, i) == [col \in DOMAIN table.data |-> table.data[col][i]]

-----------------------------------------------------------------------------
(* normalize_phone *)

MinPhoneDigits == 8
MaxPhoneDigits == 15

\* ''.join(c for c in phone_str if c.isdigit())
RECURSIVE JoinDigits(_)
JoinDigits(s) ==
    IF Len(s) = 0 THEN ""
    ELSE LET c == SubSeq(s, 1, 1)
             rest == JoinDigits(SubSeq(s, 2, Len(s)))
         IN IF isdigit(c) THEN c \o rest ELSE rest

PhoneLengthOkLoose(digits) == Len(digits) >= MinPhoneDigits - 1 /\ Len(digits) <= MaxPhoneDigits + 1

PhoneLengthOk(digits) == ~(Len(digits) < MinPhoneDigits \/ Len(digits) > MaxPhoneDigits)

normalize_phone(phone) ==
    IF isna(phone) THEN None
    ELSE LET digits == JoinDigits(phone)
         IN IF ~PhoneLengthOk(digits) THEN None
            ELSE IF startswith(phone, "+") THEN "+" \o digits
            ELSE digits

-----------------------------------------------------------------------------
(* merge_phone_numbers *)

\* The list `phones` the loop builds: the normalized value of every column of
\* phone_cols, in order, whose cell is present and normalizes to a value.
RECURSIVE MergePhones(_, _)
MergePhones(row, phone_cols) ==
    IF phone_cols = <<>> THEN <<>>
    ELSE LET col == Head(phone_cols)
             rest == MergePhones(row, Tail(phone_cols))
         IN IF notna(row[col]) /\ normalize_phone(row[col]) # None
            THEN <<normalize_phone(row[col])>> \o rest
            ELSE rest

PickLast(phones) == IF phones # <<>> THEN phones[Len(phones)] ELSE None

PickFirst(phones) == IF phones # <<>> THEN phones[1] ELSE None

merge_phone_numbers(row, phone_cols) == PickFirst(MergePhones(row, phone_cols))

-----------------------------------------------------------------------------
(* Direct calls of normalize_phone and merge_phone_numbers *)

MaxBody == 3
MaxPad == 16
MaxTail == 1

PhoneAlphabet == {"+", "7", "-", " "}

\* Inputs of normalize_phone: a free prefix, a run of digits, a free tail.
PhoneInputs ==
    {None} \cup
    {b \o DigitRun(k) \o t : b \in Strings(PhoneAlphabet, MaxBody),
                             k \in 0..MaxPad,
                             t \in Strings(PhoneAlphabet, MaxTail)}

MergeColumns == {"c1", "c2", "c3"}

MergeCells == {None, "1234567", "12345678", "+55 (11) 91234-5678", "tel: 1234 5678 9012 3456"}

MergeColumnLists ==
    {cols \in UNION {[1..n -> MergeColumns] : n \in 0..Cardinality(MergeColumns)} :
        \A i, j \in DOMAIN cols : i # j => cols[i] # cols[j]}

\* The locals of the for loop outside an iteration.
NoTable == [columns |-> <<>>, data |-> <<>>]

NoColumns == [name |-> None, email |-> None, phone_columns |-> <<>>]

PipelineIdle ==
    /\ pc = "idle"
    /\ input_exists = FALSE
    /\ csv_files = 0
    /\ file_idx = 0
    /\ df = NoTable
    /\ found_columns = NoColumns
    /\ contacts_df = <<>>
    /\ valid_contacts = <<>>
    /\ all_contacts = <<>>
    /\ sorted_index = <<>>
    /\ email_deduped = <<>>
    /\ deduped_contacts = <<>>
    /\ output_file = "absent"
    /\ writes = 0
    /\ log = <<>>

InitPhone ==
    /\ PipelineIdle
    /\ ret = <<>>
    /\ \/ \E phone \in PhoneInputs : call = [fn |-> "normalize_phone", phone |-> phone]
       \/ \E row \in [MergeColumns -> MergeCells], cols \in MergeColumnLists :
              call = [fn |-> "merge_phone_numbers", row |-> row, phone_cols |-> cols]

CallNormalizePhone ==
    /\ call.fn = "normalize_phone"
    /\ ret = <<>>
    /\ ret' = <<normalize_phone(call.phone)>>
    /\ UNCHANGED <<call, pipeline_vars>>

CallMergePhoneNumbers ==
    /\ call.fn = "merge_phone_numbers"
    /\ ret = <<>>
    /\ ret' = <<merge_phone_numbers(call.row, call.phone_cols)>>
    /\ UNCHANGED <<call, pipeline_vars>>

NextPhone == CallNormalizePhone \/ CallMergePhoneNumbers

SpecPhone == InitPhone /\ [][NextPhone]_vars

Returned(fn) == call.fn = fn /\ ret # <<>>

\* C7: normalize_phone returns absent for absent input and for a digit count
\* outside [8,15]; otherwise it returns the digits of the input in order,
\* preceded by "+" exactly when the input starts with "+".
C7_NormalizePhoneReference ==
    Returned("normalize_phone") =>
        LET s == call.phone
            D == SelectSeq(Chars(s), isdigit)
        IN IF s = None THEN ret[1] = None
           ELSE IF Len(D) < 8 \/ Len(D) > 15 THEN ret[1] = None
           ELSE /\ ret[1] # None
                /\ Chars(ret[1]) =
                     (IF Len(s) > 0 /\ Chars(s)[1] = "+" THEN <<"+">> ELSE <<>>) \o D

C7_Witness ==
    /\ Returned("normalize_phone")
    /\ call.phone # None
    /\ Len(SelectSeq(Chars(call.phone), isdigit)) = 15
    /\ Len(call.phone) > 16
    /\ startswith(call.phone, "+")
    /\ ret[1] # None

\* C8: merge_phone_numbers returns the normalized value of the first column of
\* the list whose cell is present and normalizes, absent when there is none.
C8_MergeFirstValid ==
    Returned("merge_phone_numbers") =>
        LET cols == call.phone_cols
            row == call.row
            ok(i) == row[cols[i]] # None /\ normalize_phone(row[cols[i]]) # None
        IN IF \E i \in DOMAIN cols : ok(i)
           THEN \E i \in DOMAIN cols :
                    /\ ok(i)
                    /\ \A j \in 1..(i - 1) : ~ok(j)
                    /\ ret[1] = normalize_phone(row[cols[i]])
           ELSE ret[1] = None

C8_Witness ==
    /\ Returned("merge_phone_numbers")
    /\ Len(call.phone_cols) = 3
    /\ call.row[call.phone_cols[1]] = "1234567"
    /\ call.row[call.phone_cols[2]] = "12345678"
    /\ call.row[call.phone_cols[3]] = "+55 (11) 91234-5678"
    /\ ret[1] = "12345678"

-----------------------------------------------------------------------------
(* is_likely_name, analyze_column_names, find_name_column *)

\* score > 3.5 with score = 5*alpha/total + 2*cap + 1*common - 0.5*special,
\* multiplied through by 2*total.
NameScorePasses(alpha_count, total_chars, properly_capitalized, common_length, special_count) ==
    10 * alpha_count
      + (IF properly_capitalized THEN 4 * total_chars ELSE 0)
      + (IF common_length THEN 2 * total_chars ELSE 0)
      - special_count * total_chars
    > 7 * total_chars

is_likely_name(value) ==
    IF isna(value) THEN FALSE
    ELSE LET value_str == strip(value)
             word_count == Cardinality(WordStarts(value_str))
             total_chars == Len(value_str)
             alpha_count == CountChars(value_str, LAMBDA c : isalpha(c) \/ isspace(c))
             digit_count == CountChars(value_str, isdigit)
             special_count == total_chars - alpha_count - digit_count
             properly_capitalized ==
                 \A i \in WordStarts(value_str) : isupper(SubSeq(value_str, i, i))
         IN IF Len(value_str) = 0 THEN FALSE
            ELSE IF word_count > 6 \/ word_count < 1 THEN FALSE
            ELSE IF total_chars < 2 THEN FALSE
            ELSE IF 10 * alpha_count < 7 * total_chars THEN FALSE
            ELSE IF digit_count > 0 THEN FALSE
            ELSE NameScorePasses(alpha_count, total_chars, properly_capitalized,
                                 word_count >= 2 /\ word_count <= 4, special_count)

name_patterns ==
    {<<"name", 5>>, <<"full name", 5>>, <<"full_name", 5>>, <<"firstname", 4>>,
     <<"lastname", 4>>, <<"first name", 4>>, <<"last name", 4>>, <<"customer name", 4>>,
     <<"nome", 5>>, <<"nomes", 5>>, <<"nome completo", 5>>, <<"nome_completo", 5>>,
     <<"nombre", 5>>, <<"nombres", 5>>, <<"nombre completo", 5>>, <<"apellido", 4>>,
     <<"nom", 5>>, <<"prénom", 4>>, <<"prenom", 4>>, <<"nom complet", 5>>,
     <<"vorname", 4>>, <<"nachname", 4>>, <<"vollständiger name", 5>>,
     <<"cognome", 4>>,
     <<"contact", 3>>, <<"customer", 3>>, <<"client", 3>>, <<"pessoa", 3>>,
     <<"person", 3>>, <<"usuario", 3>>, <<"user", 3>>, <<"lead", 3>>}

SetMax(S) == CHOOSE x \in S : \A y \in S : y <= x

\* The score analyze_column_names gives one column name, 0 when it gives none.
ColumnNameScore(col) ==
    LET col_lower == strip(lower(col))
        exact == {p \in name_patterns : p[1] = col_lower}
        partial == {p[2] - 1 : p \in {q \in name_patterns : contains(col_lower, q[1])}}
    IN IF exact # {} THEN (CHOOSE p \in exact : TRUE)[2]
       ELSE SetMax(partial \cup {0})

\* scored_columns, a dict: its items in insertion order, each <<col, num, den>>
\* for the score num/den.
RECURSIVE analyze_column_names(_)
analyze_column_names(columns) ==
    IF columns = <<>> THEN <<>>
    ELSE LET col == Head(columns)
             score == ColumnNameScore(col)
         IN (IF score > 0 THEN <<<<col, score, 1>>>> ELSE <<>>)
            \o analyze_column_names(Tail(columns))

NameSampleSize == 100

InScores(scores, col) == \E i \in DOMAIN scores : scores[i][1] = col

\* The loop of find_name_column over df.columns[k..]: a column with no score
\* yet whose name-like ratio exceeds 0.7 is added at the end with 3 * ratio.
RECURSIVE ContentNameScores(_, _, _)
ContentNameScores(table, k, name_scores) ==
    IF k > Len(table.columns) THEN name_scores
    ELSE LET col == table.columns[k]
             sample == head(dropna(Column(table, col)), NameSampleSize)
             likely == Cardinality({i \in DOMAIN sample : is_likely_name(sample[i])})
         IN IF ~InScores(name_scores, col) /\ Len(sample) > 0 /\ 10 * likely > 7 * Len(sample)
            THEN ContentNameScores(table, k + 1,
                                   Append(name_scores, <<col, 3 * likely, Len(sample)>>))
            ELSE ContentNameScores(table, k + 1, name_scores)

ScoreLess(a, b) == a[2] * b[3] < b[2] * a[3]

\* max(items, key=score): the first item no other item beats.
MaxItemLast(items) ==
    items[CHOOSE i \in DOMAIN items :
            /\ \A j \in DOMAIN items : ~ScoreLess(items[i], items[j])
            /\ \A j \in (i + 1)..Len(items) : ScoreLess(items[j], items[i])]

MaxItem(items) ==
    items[CHOOSE i \in DOMAIN items :
            /\ \A j \in DOMAIN items : ~ScoreLess(items[i], items[j])
            /\ \A j \in 1..(i - 1) : ScoreLess(items[j], items[i])]

NameScores(table) == ContentNameScores(table, 1, analyze_column_names(table.columns))

find_name_column(table) ==
    LET name_scores == NameScores(table)
    IN IF name_scores # <<>> THEN MaxItem(name_scores)[1] ELSE None

-----------------------------------------------------------------------------
(* Direct calls of find_name_column *)

MaxNameCols == 2
NameRows == 4
NaNCounts == {0, 1}

NameHeaders == {"Contact", "client", "Lead Name", "Foo", "Bar"}

Repeat(v, n) == [i \in 1..n |-> v]

\* The cells of one column: name-like values, then values that are not, then
\* missing cells.
NameSamples ==
    {Repeat("Ann Lee", kz[1]) \o Repeat("x1", NameRows - kz[1] - kz[2]) \o Repeat(None, kz[2]) :
        kz \in {p \in (0..NameRows) \X NaNCounts : p[1] + p[2] <= NameRows}}

DistinctLists(S, n) ==
    {cols \in UNION {[1..m -> S] : m \in 1..n} :
        \A i, j \in DOMAIN cols : i # j => cols[i] # cols[j]}

InitName ==
    /\ PipelineIdle
    /\ ret = <<>>
    /\ \E cols \in DistinctLists(NameHeaders, MaxNameCols) :
         \E d \in [{cols[i] : i \in DOMAIN cols} -> NameSamples] :
            call = [fn |-> "find_name_column", df |-> [columns |-> cols, data |-> d]]

CallFindNameColumn ==
    /\ call.fn = "find_name_column"
    /\ ret = <<>>
    /\ ret' = <<find_name_column(call.df)>>
    /\ UNCHANGED <<call, pipeline_vars>>

NextName == CallFindNameColumn

SpecName == InitName /\ [][NextName]_vars

\* A column's score as <<num, den>>: its dictionary score, or 3 * ratio for a
\* column with no dictionary score whose name-like ratio exceeds 0.7, else 0.
C9_Score(table, col) ==
    LET sample == SelectSeq(table.data[col], LAMBDA v : v # None)
        likely == Cardinality({i \in DOMAIN sample : is_likely_name(sample[i])})
    IN IF ColumnNameScore(col) > 0 THEN <<ColumnNameScore(col), 1>>
       ELSE IF Len(sample) > 0 /\ 10 * likely > 7 * Len(sample) THEN <<3 * likely, Len(sample)>>
       ELSE <<0, 1>>

C9_Less(a, b) == a[1] * b[2] < b[1] * a[2]

C9_Scores(table) == [i \in DOMAIN table.columns |-> C9_Score(table, table.columns[i])]

C9_IsMax(scores, i) ==
    /\ C9_Less(<<0, 1>>, scores[i])
    /\ \A j \in DOMAIN scores : ~C9_Less(scores[i], scores[j])

C9_Tie(table) ==
    LET scores == C9_Scores(table)
    IN \E i, j \in DOMAIN table.columns :
        /\ i < j
        /\ C9_IsMax(scores, i) /\ C9_IsMax(scores, j)
        /\ ColumnNameScore(table.columns[i]) = 0
        /\ ColumnNameScore(table.columns[j]) > 0

\* C9 as stated: the column returned is the first column, in the table's
\* column order, of maximal positive score; none iff no score is positive.
C9_FirstInColumnOrder ==
    Returned("find_name_column") =>
        LET table == call.df
            scores == C9_Scores(table)
        IN IF \E i \in DOMAIN scores : C9_IsMax(scores, i)
           THEN \E i \in DOMAIN scores :
                    /\ C9_IsMax(scores, i)
                    /\ \A j \in 1..(i - 1) : ~C9_IsMax(scores, j)
                    /\ ret[1] = table.columns[i]
           ELSE ret[1] = None

\* C9 amended: the column returned has maximal positive score; among the
\* columns of maximal score one with a dictionary score comes before one
\* scored by content, and within each kind the first in column order wins;
\* none iff no score is positive.
C9_DictionaryFirstThenColumnOrder ==
    Returned("find_name_column") =>
        LET table == call.df
            scores == C9_Scores(table)
            dict == [i \in DOMAIN scores |-> ColumnNameScore(table.columns[i]) > 0]
            before(j, i) == (dict[j] /\ ~dict[i]) \/ (dict[j] = dict[i] /\ j < i)
        IN IF \E i \in DOMAIN scores : C9_IsMax(scores, i)
           THEN \E i \in DOMAIN scores :
                    /\ C9_IsMax(scores, i)
                    /\ \A j \in DOMAIN scores : C9_IsMax(scores, j) => ~before(j, i)
                    /\ ret[1] = table.columns[i]
           ELSE ret[1] = None

C9_Witness ==
    /\ Returned("find_name_column")
    /\ call.df.columns = <<"Foo", "Contact">>
    /\ ret[1] = "Contact"
    /\ C9_Tie(call.df)

-----------------------------------------------------------------------------
(* is_likely_phone, find_phone_columns *)

\* [\s\-\.\(\)\[\]\{\}]
SeparatorChars == {" ", "\t", "-", ".", "(", ")", "[", "]", "{", "}"}

\* [\s\-\.]
GroupSepChars == {" ", "\t", "-", "."}

CharAt(s, i) == SubSeq(s, i, i)

\* re.sub(r'[\s\-\.\(\)\[\]\{\}]', '', value_str)
RECURSIVE RemoveSeparators(_)
RemoveSeparators(s) ==
    IF Len(s) = 0 THEN ""
    ELSE LET c == SubSeq(s, 1, 1)
             rest == RemoveSeparators(SubSeq(s, 2, Len(s)))
         IN IF c \in SeparatorChars THEN rest ELSE c \o rest

\* \d{n} matches s[i .. i+n-1]
DigitsAt(s, i, n) == i + n - 1 <= Len(s) /\ \A k \in i..(i + n - 1) : isdigit(CharAt(s, k))

\* [\s\-\.]? takes `a` characters (0 or 1) at position i
OptSepAt(s, i, a) == a = 0 \/ (i <= Len(s) /\ CharAt(s, i) \in GroupSepChars)

\* ^\+?[\d\s\-\.\(\)\[\]\{\}]{8,}$
GeneralPhoneFormat(s) ==
    LET from == IF startswith(s, "+") THEN 2 ELSE 1
    IN /\ Len(s) - from + 1 >= 8
       /\ \A k \in from..Len(s) : isdigit(CharAt(s, k)) \/ CharAt(s, k) \in SeparatorChars

\* \d{3}[\s\-\.]?\d{3}[\s\-\.]?\d{4} matched from position i
NanpAt(s, i) ==
    \E a, b \in {0, 1} :
        /\ DigitsAt(s, i, 3)
        /\ OptSepAt(s, i + 3, a)
        /\ DigitsAt(s, i + 3 + a, 3)
        /\ OptSepAt(s, i + 6 + a, b)
        /\ DigitsAt(s, i + 6 + a + b, 4)

NanpFormat(s) == \E i \in 1..Len(s) : NanpAt(s, i)

\* \+\d{1,3}[\s\-\.]?\d+
InternationalFormat(s) ==
    \E i \in 1..Len(s) : \E n \in 1..3, a \in {0, 1} :
        /\ CharAt(s, i) = "+"
        /\ DigitsAt(s, i + 1, n)
        /\ OptSepAt(s, i + 1 + n, a)
        /\ DigitsAt(s, i + 1 + n + a, 1)

\* \(\d{3}\)[\s\-\.]?\d{3}[\s\-\.]?\d{4}
ParenthesizedFormat(s) ==
    \E i \in 1..Len(s) : \E a, b \in {0, 1} :
        /\ CharAt(s, i) = "("
        /\ DigitsAt(s, i + 1, 3)
        /\ i + 4 <= Len(s) /\ CharAt(s, i + 4) = ")"
        /\ OptSepAt(s, i + 5, a)
        /\ DigitsAt(s, i + 5 + a, 3)
        /\ OptSepAt(s, i + 8 + a, b)
        /\ DigitsAt(s, i + 8 + a + b, 4)

is_likely_phone(value) ==
    IF isna(value) THEN FALSE
    ELSE LET cleaned == RemoveSeparators(value)
             digit_count == CountChars(cleaned, isdigit)
         IN IF digit_count > MaxPhoneDigits \/ digit_count < MinPhoneDigits THEN FALSE
            ELSE \/ GeneralPhoneFormat(value)
                 \/ NanpFormat(value)
                 \/ InternationalFormat(value)
                 \/ ParenthesizedFormat(value)

phone_patterns ==
    <<<<"phone", 5>>, <<"telephone", 5>>, <<"mobile", 5>>, <<"cell", 5>>, <<"contact", 3>>,
      <<"telefone", 5>>, <<"celular", 5>>, <<"fone", 5>>, <<"tel", 4>>,
      <<"telefono", 5>>, <<"movil", 5>>,
      <<"téléphone", 5>>, <<"portable", 5>>,
      <<"telefon", 5>>, <<"handy", 5>>, <<"mobiltelefon", 5>>,
      <<"cellulare", 5>>,
      <<"number", 3>>, <<"phone number", 4>>>>

RECURSIVE SumSeq(_)
SumSeq(xs) == IF xs = <<>> THEN 0 ELSE Head(xs) + SumSeq(Tail(xs))

\* The score the loop over phone_patterns adds up for one column name.
PhoneNameScore(col) ==
    LET col_lower == lower(col)
        points(p) == IF p[1] = col_lower THEN p[2]
                     ELSE IF contains(col_lower, p[1]) THEN p[2] - 1
                     ELSE 0
    IN SumSeq([i \in DOMAIN phone_patterns |-> points(phone_patterns[i])])

\* lengths.std() < 2 and 8 <= lengths.mean() <= 15, std being the sample
\* standard deviation (NaN, hence not < 2, for a single value).
ConsistentLength(lengths) ==
    LET n == Len(lengths)
        total == SumSeq(lengths)
        squares == SumSeq([i \in DOMAIN lengths |-> lengths[i] * lengths[i]])
    IN /\ n >= 2
       /\ n * squares - total * total < 4 * n * (n - 1)
       /\ 8 * n <= total /\ total <= 15 * n

Positive(score) == score[1] > 0

\* The total score of one column, as <<num, den>>.
PhoneColumnScore(table, col) ==
    LET sample == dropna(Column(table, col))
        n == Len(sample)
        likely == Cardinality({i \in DOMAIN sample : is_likely_phone(sample[i])})
        lengths == [i \in DOMAIN sample |-> Len(sample[i])]
        bonus == IF ConsistentLength(lengths) THEN 1 ELSE 0
    IN IF n > 0 THEN <<(PhoneNameScore(col) + bonus) * n + 4 * likely, n>>
       ELSE <<PhoneNameScore(col), 1>>

\* phone_columns after the loop over df.columns[k..]: <<col, num, den>> items.
RECURSIVE PhoneCandidates(_, _)
PhoneCandidates(table, k) ==
    IF k > Len(table.columns) THEN <<>>
    ELSE LET col == table.columns[k]
             score == PhoneColumnScore(table, col)
         IN (IF Positive(score) THEN <<<<col, score[1], score[2]>>>> ELSE <<>>)
            \o PhoneCandidates(table, k + 1)

\* Insert item after every item that does not score less (stable, descending).
RECURSIVE InsertDescending(_, _)
InsertDescending(sorted, item) ==
    IF sorted = <<>> THEN <<item>>
    ELSE IF ScoreLess(Head(sorted), item) THEN <<item>> \o sorted
    ELSE <<Head(sorted)>> \o InsertDescending(Tail(sorted), item)

RECURSIVE InsertAscending(_, _)
InsertAscending(sorted, item) ==
    IF sorted = <<>> THEN <<item>>
    ELSE IF ScoreLess(item, Head(sorted)) THEN <<item>> \o sorted
    ELSE <<Head(sorted)>> \o InsertAscending(Tail(sorted), item)

\* list.sort(key=score, reverse=True)
RECURSIVE SortByScoreAscending(_)
SortByScoreAscending(items) ==
    IF items = <<>> THEN <<>>
    ELSE InsertAscending(SortByScoreAscending(SubSeq(items, 1, Len(items) - 1)),
                         items[Len(items)])

RECURSIVE SortByScoreDescending(_)
SortByScoreDescending(items) ==
    IF items = <<>> THEN <<>>
    ELSE InsertDescending(SortByScoreDescending(SubSeq(items, 1, Len(items) - 1)),
                          items[Len(items)])

find_phone_columns(table) ==
    LET phone_columns == SortByScoreDescending(PhoneCandidates(table, 1))
    IN [i \in DOMAIN phone_columns |-> phone_columns[i][1]]

-----------------------------------------------------------------------------
(* Direct calls of find_phone_columns *)

MaxPhoneCols == 2
PhoneRows == 2

PhoneHeaders == {"Telefone", "Age", "Notes"}

\* The cells of one column: phone numbers, short digit strings, names of a
\* steady length, missing cells.
PhoneSamples ==
    {Repeat("911234567", c[1]) \o Repeat("25", c[2]) \o Repeat("John Smith", c[3])
        \o Repeat(None, PhoneRows - c[1] - c[2] - c[3]) :
        c \in {p \in (0..PhoneRows) \X (0..PhoneRows) \X (0..PhoneRows) :
                  p[1] + p[2] + p[3] <= PhoneRows}}

InitPhoneCols ==
    /\ PipelineIdle
    /\ ret = <<>>
    /\ \E cols \in DistinctLists(PhoneHeaders, MaxPhoneCols) :
         \E d \in [{cols[i] : i \in DOMAIN cols} -> PhoneSamples] :
            call = [fn |-> "find_phone_columns", df |-> [columns |-> cols, data |-> d]]

CallFindPhoneColumns ==
    /\ call.fn = "find_phone_columns"
    /\ ret = <<>>
    /\ ret' = <<find_phone_columns(call.df)>>
    /\ UNCHANGED <<call, pipeline_vars>>

NextPhoneCols == CallFindPhoneColumns

SpecPhoneCols == InitPhoneCols /\ [][NextPhoneCols]_vars

\* name-dictionary score + 4 * fraction of phone-like values + length bonus,
\* as <<num, den>>.
C10_Score(table, col) ==
    LET sample == SelectSeq(table.data[col], LAMBDA v : v # None)
        n == Len(sample)
        likely == Cardinality({i \in DOMAIN sample : is_likely_phone(sample[i])})
        bonus == IF ConsistentLength([i \in DOMAIN sample |-> Len(sample[i])]) THEN 1 ELSE 0
    IN IF n = 0 THEN <<PhoneNameScore(col), 1>>
       ELSE <<PhoneNameScore(col) * n + 4 * likely + bonus * n, n>>

\* A column like "Age": no phone label in its name, only digit strings of
\* fewer than 8 digits as values.
C10_AgeLike(table, col) ==
    /\ \A i \in DOMAIN phone_patterns : ~contains(lower(col), phone_patterns[i][1])
    /\ \A i \in DOMAIN table.data[col] :
          LET v == table.data[col][i]
          IN v # None => (Len(v) < 8 /\ \A k \in 1..Len(v) : isdigit(SubSeq(v, k, k)))

\* C10: find_phone_columns returns exactly the columns of total score > 0,
\* each once, in non-increasing order of score; a column like "Age" is never
\* returned.
C10_PhoneColumnsRanked ==
    Returned("find_phone_columns") =>
        LET table == call.df
            result == ret[1]
            score == [c \in {table.columns[i] : i \in DOMAIN table.columns} |->
                         C10_Score(table, c)]
        IN /\ \A i, j \in DOMAIN result : i # j => result[i] # result[j]
           /\ {result[i] : i \in DOMAIN result} = {c \in DOMAIN score : score[c][1] > 0}
           /\ \A i, j \in DOMAIN result :
                 i < j => score[result[i]][1] * score[result[j]][2]
                            >= score[result[j]][1] * score[result[i]][2]
           /\ \A c \in DOMAIN score :
                 C10_AgeLike(table, c) => \A i \in DOMAIN result : result[i] # c

C10_Witness ==
    /\ Returned("find_phone_columns")
    /\ call.df.columns = <<"Age", "Telefone">>
    /\ call.df.data["Age"] = <<"25", "25">>
    /\ call.df.data["Telefone"] = <<"911234567", None>>
    /\ ret[1] = <<"Telefone">>

-----------------------------------------------------------------------------
(* normalize_email, find_column(df, 'email') *)

normalize_email(email) ==
    IF isna(email) THEN None
    ELSE LET email_str == strip(lower(email))
         IN IF contains(email_str, "@") THEN email_str ELSE None

email_column_patterns == <<"email", "e-mail", "mail", "correo", "e_mail", "e mail", "correio">>

\* {col.lower(): col for col in df.columns}: the items in insertion order, a
\* later column of the same lowercase name replacing the value of the key.
RECURSIVE ColumnsLower(_, _)
ColumnsLower(columns, items) ==
    IF columns = <<>> THEN items
    ELSE LET col == Head(columns)
             key == lower(col)
         IN IF \E i \in DOMAIN items : items[i][1] = key
            THEN ColumnsLower(Tail(columns),
                              [i \in DOMAIN items |->
                                  IF items[i][1] = key THEN <<key, col>> ELSE items[i]])
            ELSE ColumnsLower(Tail(columns), Append(items, <<key, col>>))

FirstIndex(n, P(_)) == CHOOSE i \in 1..n : P(i) /\ \A j \in 1..(i - 1) : ~P(j)

\* sample.str.contains('@').mean() > 0.5 over the present cells of an
\* object column with at least one present cell.
MostlyEmails(values) ==
    LET sample == dropna(values)
        hits == Cardinality({i \in DOMAIN sample : contains(sample[i], "@")})
    IN Len(sample) > 0 /\ 2 * hits > Len(sample)

find_email_column(table) ==
    LET columns_lower == ColumnsLower(table.columns, <<>>)
        exact(k) == \E i \in DOMAIN columns_lower :
                        columns_lower[i][1] = email_column_patterns[k]
        partial(i) == \E k \in DOMAIN email_column_patterns :
                          contains(columns_lower[i][1], email_column_patterns[k])
        content(i) == MostlyEmails(Column(table, table.columns[i]))
    IN IF \E k \in DOMAIN email_column_patterns : exact(k)
       THEN LET k == FirstIndex(Len(email_column_patterns), exact)
                i == CHOOSE j \in DOMAIN columns_lower :
                         columns_lower[j][1] = email_column_patterns[k]
            IN columns_lower[i][2]
       ELSE IF \E i \in DOMAIN columns_lower : partial(i)
       THEN columns_lower[FirstIndex(Len(columns_lower), partial)][2]
       ELSE IF \E i \in DOMAIN table.columns : content(i)
       THEN table.columns[FirstIndex(Len(table.columns), content)]
       ELSE None

-----------------------------------------------------------------------------
(* process_csvs: per-file extraction *)

\* df[name_col].fillna('').astype(str).apply(lambda x: x.strip() or None)
extract_name(value) ==
    LET x == strip(IF isna(value) THEN "" ELSE value)
    IN IF x = "" THEN None ELSE x

NothingFound(found) ==
    found.name = None /\ found.email = None /\ found.phone_columns = <<>>

SelectColumns(table) ==
    [name |-> find_name_column(table),
     email |-> find_email_column(table),
     phone_columns |-> find_phone_columns(table)]

\* contacts_df: one row per row of df. With no column assigned from df the
\* frame never gets an index and has no rows.
ExtractContacts(table, found) ==
    IF NothingFound(found) THEN <<>>
    ELSE [i \in 1..NumRows(table) |->
            [name |-> IF found.name # None
                      THEN extract_name(Column(table, found.name)[i]) ELSE None,
             email |-> IF found.email # None
                       THEN normalize_email(Column(table, found.email)[i]) ELSE None,
             phone |-> IF found.phone_columns # <<>>
                       THEN merge_phone_numbers(Row(table, i), found.phone_columns)
                       ELSE None]]

EmptyToNone(v) == IF v = "" THEN None ELSE v

\* contacts_df.replace('', None)
ReplaceEmpty(rows) ==
    [i \in DOMAIN rows |->
        [name |-> EmptyToNone(rows[i].name),
         email |-> EmptyToNone(rows[i].email),
         phone |-> EmptyToNone(rows[i].phone)]]

AllAbsent(r) == isna(r.name) /\ isna(r.email) /\ isna(r.phone)

KeepEveryRow(rows) == rows

\* dropna(how='all')
DropAllAbsent(rows) == SelectSeq(rows, LAMBDA r : ~AllAbsent(r))

-----------------------------------------------------------------------------
(* process_csvs: sort by completeness and the two drop_duplicates passes *)

\* all_contacts.notna().sum(axis=1)
completeness(r) ==
    (IF notna(r.name) THEN 1 ELSE 0) + (IF notna(r.email) THEN 1 ELSE 0)
      + (IF notna(r.phone) THEN 1 ELSE 0)

\* sort_values('completeness', ascending=False) with the default
\* kind='quicksort', which is not stable: every order of the row labels S that
\* is non-increasing in completeness.
RECURSIVE SortedOrders(_, _)
SortedOrders(contacts, S) ==
    IF S = {} THEN {<<>>}
    ELSE UNION {{<<i>> \o rest : rest \in SortedOrders(contacts, S \ {i})} :
                i \in {j \in S : \A k \in S :
                          completeness(contacts[k]) <= completeness(contacts[j])}}

\* drop_duplicates(subset=[field], keep='last')
RECURSIVE KeepLast(_, _)
KeepLast(keys, labels) ==
    IF labels = <<>> THEN <<>>
    ELSE LET l == Head(labels)
         IN (IF \E i \in 1..Len(Tail(labels)) : keys[Tail(labels)[i]] = keys[l]
             THEN <<>> ELSE <<l>>) \o KeepLast(keys, Tail(labels))

\* drop_duplicates(subset=[field], keep='first') over the rows `labels`, in
\* order; keys[l] is the field of row l. Missing values compare equal.
RECURSIVE KeepFirst(_, _)
KeepFirst(keys, labels) ==
    IF labels = <<>> THEN <<>>
    ELSE LET l == labels[Len(labels)]
             front == SubSeq(labels, 1, Len(labels) - 1)
         IN KeepFirst(keys, front)
            \o (IF \E i \in DOMAIN front : keys[front[i]] = keys[l] THEN <<>> ELSE <<l>>)

EmailKeys(contacts) == [i \in DOMAIN contacts |-> contacts[i].email]

PhoneKeys(contacts) == [i \in DOMAIN contacts |-> contacts[i].phone]

-----------------------------------------------------------------------------
(* main and process_csvs as a state machine *)

MaxFiles == 2

\* What read_csv may return: the files of an input directory.
InputTables ==
    { [columns |-> <<"Nome", "Email", "Telefone">>,
       data |-> [Nome |-> <<"Maria Silva", None>>,
                 Email |-> <<"MARIA@Example.com", "n/a">>,
                 Telefone |-> <<"(11) 91234-5678", "123">>]],
      [columns |-> <<"full name", "email", "mobile">>,
       data |-> ("full name" :> <<"Maria Silva">>) @@ ("email" :> <<"maria@example.com">>)
                  @@ ("mobile" :> <<"911234567">>)],
      [columns |-> <<"Name", "Phone">>,
       data |-> [Name |-> <<"Ann Lee", "Bob Ray">>,
                 Phone |-> <<"+1 202 555 0101", "+1 202 555 0102">>]],
      [columns |-> <<"Work Mail">>,
       data |-> ("Work Mail" :> <<" maria@Example.com ">>)],
      [columns |-> <<"Nome", "E-mail">>,
       data |-> ("Nome" :> <<"Joe Doe">>) @@ ("E-mail" :> <<"joe@x.org">>)],
      [columns |-> <<"Login", "Phone">>,
       data |-> [Login |-> <<"joe@x.org", "ann@x.org">>,
                 Phone |-> <<"(11) 91234-5678", "11 91234 5678">>]],
      [columns |-> <<"Age", "Code">>,
       data |-> [Age |-> <<"25", "31">>, Code |-> <<"x1", "y2">>]] }

NoLocals ==
    /\ df' = NoTable
    /\ found_columns' = NoColumns
    /\ contacts_df' = <<>>
    /\ valid_contacts' = <<>>

Init ==
    /\ pc \in {"main", "process_csvs"}
    /\ input_exists \in BOOLEAN
    /\ csv_files \in 0..MaxFiles
    /\ ~input_exists => csv_files = 0
    /\ file_idx = 0
    /\ df = NoTable
    /\ found_columns = NoColumns
    /\ contacts_df = <<>>
    /\ valid_contacts = <<>>
    /\ all_contacts = <<>>
    /\ sorted_index = <<>>
    /\ email_deduped = <<>>
    /\ deduped_contacts = <<>>
    /\ output_file = "absent"
    /\ writes = 0
    /\ log = <<>>
    /\ call = [fn |-> "main"]
    /\ ret = <<>>

NeverEmpty(n) == FALSE

\* `not csv_files`
NoCsvFiles(n) == n = 0

\* main: the two checks before process_csvs()
Main ==
    /\ pc = "main"
    /\ IF ~input_exists
       THEN /\ input_exists' = TRUE
            /\ pc' = "done"
       ELSE /\ pc' = IF NoCsvFiles(csv_files) THEN "done" ELSE "process_csvs"
            /\ UNCHANGED input_exists
    /\ UNCHANGED <<csv_files, file_idx, df, found_columns, contacts_df, valid_contacts,
                   all_contacts, sorted_index, email_deduped, deduped_contacts,
                   output_file, writes, log, call, ret>>

\* process_csvs up to the for loop
ProcessCsvs ==
    /\ pc = "process_csvs"
    /\ pc' = IF NoCsvFiles(csv_files) THEN "done" ELSE "loop"
    /\ UNCHANGED <<input_exists, csv_files, file_idx, df, found_columns, contacts_df,
                   valid_contacts, all_contacts, sorted_index, email_deduped,
                   deduped_contacts, output_file, writes, log, call, ret>>

\* for csv_file in csv_files
NextFile ==
    /\ pc = "loop"
    /\ pc' = IF file_idx < csv_files THEN "read_csv" ELSE "dedup"
    /\ UNCHANGED <<input_exists, csv_files, file_idx, df, found_columns, contacts_df,
                   valid_contacts, all_contacts, sorted_index, email_deduped,
                   deduped_contacts, output_file, writes, log, call, ret>>

ReadCsv ==
    /\ pc = "read_csv"
    /\ \E table \in InputTables : df' = table
    /\ pc' = "select"
    /\ UNCHANGED <<input_exists, csv_files, file_idx, found_columns, contacts_df,
                   valid_contacts, all_contacts, sorted_index, email_deduped,
                   deduped_contacts, output_file, writes, log, call, ret>>

FindColumns ==
    /\ pc = "select"
    /\ found_columns' = SelectColumns(df)
    /\ pc' = "extract"
    /\ UNCHANGED <<input_exists, csv_files, file_idx, df, contacts_df, valid_contacts,
                   all_contacts, sorted_index, email_deduped, deduped_contacts,
                   output_file, writes, log, call, ret>>

Extract ==
    /\ pc = "extract"
    /\ contacts_df' = ExtractContacts(df, found_columns)
    /\ pc' = "filter"
    /\ UNCHANGED <<input_exists, csv_files, file_idx, df, found_columns, valid_contacts,
                   all_contacts, sorted_index, email_deduped, deduped_contacts,
                   output_file, writes, log, call, ret>>

Filter ==
    /\ pc = "filter"
    /\ valid_contacts' = DropAllAbsent(ReplaceEmpty(contacts_df))
    /\ pc' = "append"
    /\ UNCHANGED <<input_exists, csv_files, file_idx, df, found_columns, contacts_df,
                   all_contacts, sorted_index, email_deduped, deduped_contacts,
                   output_file, writes, log, call, ret>>

\* pd.concat, then progress.advance: the iteration ends and its locals are dead.
AppendContacts ==
    /\ pc = "append"
    /\ all_contacts' = all_contacts \o valid_contacts
    /\ log' = Append(log, [event |-> "extracted", contacts |-> Len(valid_contacts)])
    /\ file_idx' = file_idx + 1
    /\ pc' = "loop"
    /\ NoLocals
    /\ UNCHANGED <<input_exists, csv_files, sorted_index, email_deduped,
                   deduped_contacts, output_file, writes, call, ret>>

\* A statement of the try block raises an Exception; pd.concat raises before
\* all_contacts is assigned.
Raise ==
    /\ pc \in {"read_csv", "select", "extract", "filter", "append"}
    /\ pc' = "except"
    /\ UNCHANGED <<input_exists, csv_files, file_idx, df, found_columns, contacts_df,
                   valid_contacts, all_contacts, sorted_index, email_deduped,
                   deduped_contacts, output_file, writes, log, call, ret>>

Propagate ==
    /\ pc = "except"
    /\ pc' = "fatal"
    /\ UNCHANGED <<input_exists, csv_files, file_idx, df, found_columns, contacts_df,
                   valid_contacts, all_contacts, sorted_index, email_deduped,
                   deduped_contacts, output_file, writes, log, call, ret>>

\* except Exception: logger.error(...), then progress.advance
HandleException ==
    /\ pc = "except"
    /\ log' = Append(log, [event |-> "error", contacts |-> 0])
    /\ file_idx' = file_idx + 1
    /\ pc' = "loop"
    /\ NoLocals
    /\ UNCHANGED <<input_exists, csv_files, all_contacts, sorted_index, email_deduped,
                   deduped_contacts, output_file, writes, call, ret>>

\* completeness, sort_values, drop_duplicates on email, then on phone
Dedup ==
    /\ pc = "dedup"
    /\ \E order \in SortedOrders(all_contacts, DOMAIN all_contacts) :
          /\ sorted_index' = order
          /\ email_deduped' = KeepFirst(EmailKeys(all_contacts), order)
          /\ deduped_contacts' =
                 KeepFirst(PhoneKeys(all_contacts),
                           KeepFirst(EmailKeys(all_contacts), order))
    /\ pc' = "write"
    /\ UNCHANGED <<input_exists, csv_files, file_idx, df, found_columns, contacts_df,
                   valid_contacts, all_contacts, output_file, writes, log, call, ret>>

\* deduped_contacts.to_csv(output_file): it completes, raises, or is
\* interrupted half-way.
WriteOutput ==
    /\ pc = "write"
    /\ writes' = writes + 1
    /\ \/ output_file' = "written" /\ pc' = "done"
       \/ output_file' = "partial" /\ pc' = "fatal"
       \/ output_file' = "partial" /\ pc' = "interrupted"
    /\ UNCHANGED <<input_exists, csv_files, file_idx, df, found_columns, contacts_df,
                   valid_contacts, all_contacts, sorted_index, email_deduped,
                   deduped_contacts, log, call, ret>>

\* KeyboardInterrupt between two statements of process_csvs: not an Exception,
\* so it leaves the loop; main prints and exits.
Interrupt ==
    /\ pc \in {"process_csvs", "loop", "read_csv", "select", "extract", "filter",
               "append", "except", "dedup", "write"}
    /\ pc' = "interrupted"
    /\ UNCHANGED <<input_exists, csv_files, file_idx, df, found_columns, contacts_df,
                   valid_contacts, all_contacts, sorted_index, email_deduped,
                   deduped_contacts, output_file, writes, log, call, ret>>

Next ==
    \/ Main
    \/ ProcessCsvs
    \/ NextFile
    \/ Raise
    \/ HandleException
    \/ Interrupt
    \/ ReadCsv
    \/ FindColumns
    \/ Extract
    \/ Filter
    \/ AppendContacts
    \/ Dedup
    \/ WriteOutput

Spec == Init /\ [][Next]_vars

\* The interpreter keeps running the program until it ends.
FairSpec == Spec /\ WF_vars(Next)

-----------------------------------------------------------------------------
(* Properties of the pipeline *)

Range(f) == {f[i] : i \in DOMAIN f}

\* The state right after the sort and the two drop_duplicates passes.
Deduplicated == pc = "write"

\* C1: the email pass removes a record only if an earlier record in sorted
\* order carries the same non-absent email, and the phone pass removes a
\* record only if an earlier surviving record carries the same non-absent
\* phone: records with an absent key are never merged on that key.
C1_AbsenceNeverMatches ==
    Deduplicated =>
        /\ \A p \in DOMAIN sorted_index :
              sorted_index[p] \notin Range(email_deduped) =>
                  \E q \in 1..(p - 1) :
                      /\ all_contacts[sorted_index[p]].email # None
                      /\ all_contacts[sorted_index[q]].email
                           = all_contacts[sorted_index[p]].email
        /\ \A p \in DOMAIN email_deduped :
              email_deduped[p] \notin Range(deduped_contacts) =>
                  \E q \in 1..(p - 1) :
                      /\ email_deduped[q] \in Range(deduped_contacts)
                      /\ all_contacts[email_deduped[p]].phone # None
                      /\ all_contacts[email_deduped[q]].phone
                           = all_contacts[email_deduped[p]].phone

Emails == {all_contacts[i].email : i \in DOMAIN all_contacts} \ {None}

WithEmail(labels, e) == {i \in Range(labels) : all_contacts[i].email = e}

MostComplete(i) ==
    \A j \in DOMAIN all_contacts :
        all_contacts[j].email = all_contacts[i].email =>
            completeness(all_contacts[j]) <= completeness(all_contacts[i])

\* C2 as stated: the final output holds exactly one record for each distinct
\* non-absent email of the ContactSet, the most complete one with that email.
C2_ExactlyOnePerEmailInOutput ==
    Deduplicated =>
        \A e \in Emails :
            /\ Cardinality(WithEmail(deduped_contacts, e)) = 1
            /\ \A i \in WithEmail(deduped_contacts, e) : MostComplete(i)

\* C2 amended: the email pass leaves exactly one record for each distinct
\* non-absent email, the most complete one with that email; the final output
\* holds at most one record for each such email, and only that record (the
\* phone pass may remove it).
C2_AtMostOnePerEmailInOutput ==
    Deduplicated =>
        \A e \in Emails :
            /\ Cardinality(WithEmail(email_deduped, e)) = 1
            /\ \A i \in WithEmail(email_deduped, e) : MostComplete(i)
            /\ Cardinality(WithEmail(deduped_contacts, e)) <= 1
            /\ WithEmail(deduped_contacts, e) \subseteq WithEmail(email_deduped, e)

C2_Witness ==
    /\ Deduplicated
    /\ \E i, j \in DOMAIN all_contacts :
          /\ all_contacts[i].email = "maria@example.com"
          /\ all_contacts[j].email = "maria@example.com"
          /\ completeness(all_contacts[i]) = 1
          /\ completeness(all_contacts[j]) = 3
          /\ i < j
          /\ Range(deduped_contacts) = {j}

\* C3: the completeness sort is stable, so among records of equal
\* completeness with the same non-absent email the one kept is the first in
\* file/row order.
C3_StableSort ==
    Deduplicated =>
        /\ \A p, q \in DOMAIN sorted_index :
              (p < q /\ completeness(all_contacts[sorted_index[p]])
                          = completeness(all_contacts[sorted_index[q]]))
                  => sorted_index[p] < sorted_index[q]
        /\ \A i, j \in DOMAIN all_contacts :
              (/\ i < j
               /\ all_contacts[i].email # None
               /\ all_contacts[i].email = all_contacts[j].email
               /\ completeness(all_contacts[i]) = completeness(all_contacts[j]))
                  => j \notin Range(deduped_contacts)

\* C4: a file that raises leaves the ContactSet as it was when the file
\* started and only ends that file's iteration; the loop goes on to the next
\* file and the run reaches the dedup and the output-write step (unless the
\* user interrupts it).
C4_FailureIsolated ==
    /\ [][/\ pc \in {"read_csv", "select", "extract", "filter", "except"}
               => all_contacts' = all_contacts
          /\ pc' = "except" => all_contacts' = all_contacts
          /\ pc = "except"
               => \/ pc' = "interrupted"
                  \/ /\ pc' = "loop"
                     /\ file_idx' = file_idx + 1
                     /\ log' = Append(log, [event |-> "error", contacts |-> 0])]_vars
    /\ [](pc = "except" => <>(pc \in {"write", "interrupted"}))
    /\ [](pc \in {"dedup", "write", "done"} => Len(log) = csv_files /\ file_idx = csv_files)

C4_Witness ==
    /\ pc = "done"
    /\ output_file = "written"
    /\ log = <<[event |-> "error", contacts |-> 0], [event |-> "extracted", contacts |-> 2]>>
    /\ Len(all_contacts) = 2

Blank(v) == v = None \/ v = ""

\* C5: no record of the ContactSet, hence none of the output, has name, email
\* and phone all absent or empty; a file with no column selected appends
\* nothing.
C5_NoEmptyRecord ==
    /\ \A i \in DOMAIN all_contacts :
          ~(Blank(all_contacts[i].name) /\ Blank(all_contacts[i].email)
              /\ Blank(all_contacts[i].phone))
    /\ Range(deduped_contacts) \subseteq DOMAIN all_contacts
    /\ (pc = "append" /\ NothingFound(found_columns)) => valid_contacts = <<>>

C5_Witness ==
    /\ pc = "loop"
    /\ file_idx = 2
    /\ log = <<[event |-> "extracted", contacts |-> 1], [event |-> "extracted", contacts |-> 0]>>
    /\ Len(all_contacts) = 1
    /\ all_contacts[1].phone = "11912345678"
    /\ all_contacts[1].name = "Maria Silva"

\* C6: the output file is written at most once, and only when the file list
\* is non-empty and every file has been processed; a run with no input file,
\* or interrupted while files remain, writes nothing.
C6_SingleFinalWrite ==
    /\ writes <= 1
    /\ writes = 1 => (csv_files > 0 /\ file_idx = csv_files /\ Len(log) = csv_files)
    /\ output_file # "absent" => writes = 1
    /\ csv_files = 0 => (writes = 0 /\ output_file = "absent")
    /\ (pc = "interrupted" /\ file_idx < csv_files) => (writes = 0 /\ output_file = "absent")

C6_Witness ==
    /\ pc = "done"
    /\ writes = 1
    /\ output_file = "written"
    /\ csv_files = 2
    /\ Len(log) = 2

=============================================================================
